---- MODULE Spec2Model ----
(***************************************************************************)
(* Reed-Solomon encoder of the QR generator (src/src/reed_solomon.ts):     *)
(* GF(2^8/0x11D) multiplication, the generator (divisor) polynomial, the   *)
(* polynomial remainder, the capacity formulas and the block splitter /    *)
(* interleaver, as a state machine over one call of each operation.        *)
(***************************************************************************)
EXTENDS Integers, Sequences, FiniteSets, TLC

VARIABLES
  pc,      \* position of the running call: "call", "split", "assert", "done"
  args,    \* the operation called and its arguments
  ret,     \* what the call returned or threw (kind "none" while it runs)
  loc,     \* addEccAndInterleave's parameter numbers and rsDiv (lines 99-107)
  blocks,  \* addEccAndInterleave's blocks built so far (line 106)
  i,       \* addEccAndInterleave's block loop index (line 108)
  k,       \* addEccAndInterleave's data cursor (line 108)
  result   \* addEccAndInterleave's interleaved output (line 118)

vars == <<pc, args, ret, loc, blocks, i, k, result>>

----------------------------------------------------------------------------
(* Values a call ends with: a returned value or a thrown string.           *)

Return(v) == [kind |-> "return", val |-> v]
Throw(msg) == [kind |-> "throw", val |-> msg]
Running == [kind |-> "none", val |-> 0]

NoLocals == [numBlocks |-> 0, blockEccLen |-> 0, rawCodewords |-> 0,
             numShortBlocks |-> 0, shortBlockLen |-> 0, rsDiv |-> <<>>]

----------------------------------------------------------------------------
(* JavaScript's 32-bit operators on the integers the code applies them to. *)

\* n >>> s for 1 <= s <= 31 and n a 32-bit integer: ToUint32(n) is n for
\* n >= 0 and n + 2^32 for n < 0, then shifted right.
URShift(n, s) ==
  IF n >= 0 THEN n \div (2 ^ s) ELSE (2 ^ (32 - s)) + (n \div (2 ^ s))

RECURSIVE XorBits(_, _)
XorBits(a, b) ==
  IF a = 0 THEN b
  ELSE IF b = 0 THEN a
  ELSE ((a + b) % 2) + 2 * XorBits(a \div 2, b \div 2)

XorNibble == [a \in 0..15 |-> [b \in 0..15 |-> XorBits(a, b)]]

\* a ^ b on non-negative operands, four bits at a time
RECURSIVE XOR(_, _)
XOR(a, b) ==
  IF a = 0 THEN b
  ELSE IF b = 0 THEN a
  ELSE IF a < 256 /\ b < 256
    THEN XorNibble[a % 16][b % 16] + 16 * XorNibble[a \div 16][b \div 16]
  ELSE XorNibble[a % 16][b % 16] + 16 * XOR(a \div 16, b \div 16)

----------------------------------------------------------------------------
(* reedSolomonMultiply (lines 79-91).                                      *)

BYTE_MAX == 255
Byte == 0..BYTE_MAX
PRIMITIVE_POLY == 285   \* 0x11D

\* A primitive polynomial written without its x^8 term: the doubling step
\* then leaves bit 8 set.
MultiplyStepDroppedBit(z, x, y, bit) ==
  XOR(XOR(z * 2, URShift(z, 7) * 29), (URShift(y, bit) % 2) * x)

\* One pass of the loop body, lines 85-86.
MultiplyStep(z, x, y, bit) ==
  XOR(XOR(z * 2, URShift(z, 7) * PRIMITIVE_POLY), (URShift(y, bit) % 2) * x)

\* for (let i = 7; i >= 0; i--), lines 83-87
RECURSIVE MultiplyLoop(_, _, _, _)
MultiplyLoop(x, y, bit, z) ==
  IF bit < 0 THEN z
  ELSE MultiplyLoop(x, y, bit - 1, MultiplyStep(z, x, y, bit))

\* The loop's z for every pair of bytes, evaluated once.
MultiplyZ == [x \in Byte |-> [y \in Byte |-> MultiplyLoop(x, y, 7, 0)]]

reedSolomonMultiply(x, y) ==
  IF URShift(x, 8) # 0 \/ URShift(y, 8) # 0
    THEN Throw("Byte out of range")
    ELSE LET z == MultiplyZ[x][y]
         IN  IF URShift(z, 8) # 0 THEN Throw("Assertion error") ELSE Return(z)

\* The value of a call the caller does not guard (an exception would
\* propagate; the callers below only pass bytes).
Product(x, y) == reedSolomonMultiply(x, y).val

----------------------------------------------------------------------------
(* Specification of one call of reedSolomonMultiply.                       *)

MultiplyInputs == (-1)..(BYTE_MAX + 2)

InitMultiply ==
  /\ pc = "call"
  /\ args \in [op : {"reedSolomonMultiply"}, x : MultiplyInputs, y : MultiplyInputs]
  /\ ret = Running
  /\ loc = NoLocals
  /\ blocks = <<>>
  /\ i = 0
  /\ k = 0
  /\ result = <<>>

CallMultiply ==
  /\ pc = "call"
  /\ args.op = "reedSolomonMultiply"
  /\ ret' = reedSolomonMultiply(args.x, args.y)
  /\ pc' = "done"
  /\ UNCHANGED <<args, loc, blocks, i, k, result>>

NextMultiply == CallMultiply

SpecMultiply == InitMultiply /\ [][NextMultiply]_vars

----------------------------------------------------------------------------
(* reedSolomonComputeDivisor (lines 37-61).                                *)

MIN_DEGREE == 1
MAX_DEGREE == 255

\* The function [j \in 1..n |-> ...] as the array it stands for.
Array(f) == SubSeq(f, 1, Len(f))

\* lines 42-45: degree - 1 zeros, then 1
Monomial(degree) == Array([j \in 1..degree |-> IF j < degree THEN 0 ELSE 1])

\* The inner loop without the XOR of the next coefficient (line 56 dropped).
DivisorPassNoCarry(coef, root) ==
  Array([j \in 1..Len(coef) |-> Product(coef[j], root)])

\* lines 53-57, for (let j = 0; j < result.length; j++): position j is
\* rewritten from its own old value and the not yet rewritten position j+1.
DivisorPass(coef, root) ==
  Array([j \in 1..Len(coef) |->
           IF j < Len(coef)
             THEN XOR(Product(coef[j], root), coef[j + 1])
             ELSE Product(coef[j], root)])

\* lines 51-59, for (let i = 0; i < degree; i++); the pass rewrites the
\* array in place, so its length stays.
RECURSIVE DivisorLoop(_, _, _, _)
DivisorLoop(coef, root, n, degree) ==
  IF n >= degree THEN coef
  ELSE LET next == DivisorPass(coef, root)
       IN  CASE Len(next) = Len(coef) ->
                  DivisorLoop(next, Product(root, 2), n + 1, degree)

\* A guard that lets degree 0 through.
reedSolomonComputeDivisorFromZero(degree) ==
  IF degree < 0 \/ degree > MAX_DEGREE
    THEN Throw("Degree out of range")
    ELSE Return(DivisorLoop(Monomial(degree), 1, 0, degree))

reedSolomonComputeDivisor(degree) ==
  IF degree < MIN_DEGREE \/ degree > MAX_DEGREE
    THEN Throw("Degree out of range")
    ELSE Return(DivisorLoop(Monomial(degree), 1, 0, degree))

----------------------------------------------------------------------------
(* Specification of one call of reedSolomonComputeDivisor.                 *)

MaxDegree == 60

DegreeInputs ==
  ((-2)..MaxDegree) \cup ((MAX_DEGREE - 1)..(MAX_DEGREE + 2))

InitDivisor ==
  /\ pc = "call"
  /\ args \in [op : {"reedSolomonComputeDivisor"}, degree : DegreeInputs]
  /\ ret = Running
  /\ loc = NoLocals
  /\ blocks = <<>>
  /\ i = 0
  /\ k = 0
  /\ result = <<>>

CallComputeDivisor ==
  /\ pc = "call"
  /\ args.op = "reedSolomonComputeDivisor"
  /\ ret' = reedSolomonComputeDivisor(args.degree)
  /\ pc' = "done"
  /\ UNCHANGED <<args, loc, blocks, i, k, result>>

NextDivisor == CallComputeDivisor

SpecDivisor == InitDivisor /\ [][NextDivisor]_vars

----------------------------------------------------------------------------
(* reedSolomonComputeRemainder (lines 65-74).                              *)

\* result.shift() as byte, under ^: the removed first element, or
\* undefined (0 under ^) when the array is empty
ShiftValue(arr) == IF arr = <<>> THEN 0 ELSE Head(arr)

\* the array after result.shift()
ShiftRest(arr) == IF arr = <<>> THEN <<>> ELSE Tail(arr)

\* The loop body without result.push(0): the buffer loses a byte per data
\* byte.
RemainderStepNoPush(res, b, divisor) ==
  LET factor == XOR(b, ShiftValue(res))
      rest == ShiftRest(res)
  IN  Array([j \in 1..Len(rest) |->
               IF j <= Len(divisor)
                 THEN XOR(rest[j], Product(divisor[j], factor))
                 ELSE rest[j]])

\* lines 68-71, the body of for (const b of data)
RemainderStep(res, b, divisor) ==
  LET factor == XOR(b, ShiftValue(res))
      pushed == ShiftRest(res) \o <<0>>
  IN  Array([j \in 1..Len(pushed) |->
               IF j <= Len(divisor)
                 THEN XOR(pushed[j], Product(divisor[j], factor))
                 ELSE pushed[j]])

\* lines 67-72 over data[lo..hi], in order: the first half, and once its
\* buffer is there the second half from it.
RECURSIVE RemainderLoop(_, _, _, _, _)
RemainderLoop(res, data, divisor, lo, hi) ==
  IF lo > hi THEN res
  ELSE IF lo = hi THEN RemainderStep(res, data[lo], divisor)
  ELSE LET mid == (lo + hi) \div 2
           half == RemainderLoop(res, data, divisor, lo, mid)
       IN  CASE Len(half) >= 0 ->
                  RemainderLoop(half, data, divisor, mid + 1, hi)

reedSolomonComputeRemainder(data, divisor) ==
  RemainderLoop(Array([j \in 1..Len(divisor) |-> 0]), data, divisor,
                1, Len(data))

----------------------------------------------------------------------------
(* Specification of one call of reedSolomonComputeRemainder.               *)

MaxDataLen == 3
MaxDivisorLen == 2
MaxGenDegree == 4

SampleBytes == {0, 1, 2, 29, 255}
SampleCoefs == {0, 1, 142}

SeqsUpTo(S, n) == UNION {[1..m -> S] : m \in 0..n}

DataInputs == SeqsUpTo(SampleBytes, MaxDataLen)

Generators == {reedSolomonComputeDivisor(d).val : d \in MIN_DEGREE..MaxGenDegree}

DivisorInputs == SeqsUpTo(SampleCoefs, MaxDivisorLen) \cup Generators

InitRemainder ==
  /\ pc = "call"
  /\ args \in [op : {"reedSolomonComputeRemainder"},
               data : DataInputs, divisor : DivisorInputs]
  /\ ret = Running
  /\ loc = NoLocals
  /\ blocks = <<>>
  /\ i = 0
  /\ k = 0
  /\ result = <<>>

CallComputeRemainder ==
  /\ pc = "call"
  /\ args.op = "reedSolomonComputeRemainder"
  /\ ret' = Return(reedSolomonComputeRemainder(args.data, args.divisor))
  /\ pc' = "done"
  /\ UNCHANGED <<args, loc, blocks, i, k, result>>

NextRemainder == CallComputeRemainder

SpecRemainder == InitRemainder /\ [][NextRemainder]_vars

----------------------------------------------------------------------------
(* The capacity tables of the QR code object (qr.js, not among the         *)
(* sources): the standard's ECC codewords per block and number of error    *)
(* correction blocks, one row per level, one column per version 1..40.     *)

ErrorCorrectionLevels == [L |-> 1, M |-> 2, Q |-> 3, H |-> 4]

Levels == {"L", "M", "Q", "H"}

ECC_CODEWORDS_PER_BLOCK ==
  <<<<7, 10, 15, 20, 26, 18, 20, 24, 30, 18, 20, 24, 26, 30, 22, 24, 28, 30, 28, 28, 28, 28, 30, 30, 26, 28, 30, 30, 30, 30, 30, 30, 30, 30, 30, 30, 30, 30, 30, 30>>,
    <<10, 16, 26, 18, 24, 16, 18, 22, 22, 26, 30, 22, 22, 24, 24, 28, 28, 26, 26, 26, 26, 28, 28, 28, 28, 28, 28, 28, 28, 28, 28, 28, 28, 28, 28, 28, 28, 28, 28, 28>>,
    <<13, 22, 18, 26, 18, 24, 18, 22, 20, 24, 28, 26, 24, 20, 30, 24, 28, 28, 26, 30, 28, 30, 30, 30, 30, 28, 30, 30, 30, 30, 30, 30, 30, 30, 30, 30, 30, 30, 30, 30>>,
    <<17, 28, 22, 16, 22, 28, 26, 26, 24, 28, 24, 28, 22, 24, 24, 30, 28, 28, 26, 28, 30, 24, 30, 30, 30, 30, 30, 30, 30, 30, 30, 30, 30, 30, 30, 30, 30, 30, 30, 30>>>>

NUM_ERROR_CORRECTION_BLOCKS ==
  <<<<1, 1, 1, 1, 1, 2, 2, 2, 2, 4, 4, 4, 4, 4, 6, 6, 6, 6, 7, 8, 8, 9, 9, 10, 12, 12, 12, 13, 14, 15, 16, 17, 18, 19, 19, 20, 21, 22, 24, 25>>,
    <<1, 1, 1, 2, 2, 4, 4, 4, 5, 5, 5, 8, 9, 9, 10, 10, 11, 13, 14, 16, 17, 17, 18, 20, 21, 23, 25, 26, 28, 29, 31, 33, 35, 37, 38, 40, 43, 45, 47, 49>>,
    <<1, 1, 2, 2, 4, 4, 6, 6, 8, 8, 8, 10, 12, 16, 12, 17, 16, 18, 21, 20, 23, 23, 25, 27, 29, 34, 34, 35, 38, 40, 43, 45, 48, 51, 53, 56, 59, 62, 65, 68>>,
    <<1, 1, 2, 4, 4, 4, 5, 6, 8, 8, 11, 11, 16, 16, 18, 16, 19, 21, 25, 25, 25, 34, 30, 32, 35, 37, 40, 42, 45, 48, 51, 54, 57, 60, 63, 66, 70, 74, 77, 81>>>>

----------------------------------------------------------------------------
(* getNumRawDataModules (lines 8-21), getNumDataCodewords (lines 27-32).   *)

MIN_VERSION == 1
MAX_VERSION == 40
RAW_MODULES_MIN == 208
RAW_MODULES_MAX == 29648

\* lines 11-17
RawModulesFormula(ver) ==
  LET base == (16 * ver + 128) * ver + 64
      numAlign == (ver \div 7) + 2
      align == IF ver >= 2 THEN (25 * numAlign - 10) * numAlign - 55 ELSE 0
      extra == IF ver >= 7 THEN 36 ELSE 0
  IN  base - align - extra

\* The formula with the version information bits of versions >= 7 left in.
getNumRawDataModulesNoVersionInfo(ver) ==
  IF ver < MIN_VERSION \/ ver > MAX_VERSION
    THEN Throw("Version number out of range")
    ELSE LET base == (16 * ver + 128) * ver + 64
             numAlign == (ver \div 7) + 2
             align == IF ver >= 2 THEN (25 * numAlign - 10) * numAlign - 55 ELSE 0
             res == base - align
         IN  IF ~(RAW_MODULES_MIN <= res /\ res <= RAW_MODULES_MAX)
               THEN Throw("Assertion error")
               ELSE Return(res)

getNumRawDataModules(ver) ==
  IF ver < MIN_VERSION \/ ver > MAX_VERSION
    THEN Throw("Version number out of range")
    ELSE LET res == RawModulesFormula(ver)
         IN  IF ~(RAW_MODULES_MIN <= res /\ res <= RAW_MODULES_MAX)
               THEN Throw("Assertion error")
               ELSE Return(res)

getNumDataCodewords(ver, ecl) ==
  LET raw == getNumRawDataModules(ver)
  IN  IF raw.kind = "throw" THEN raw
      ELSE Return((raw.val \div 8)
                  - ECC_CODEWORDS_PER_BLOCK[ErrorCorrectionLevels[ecl]][ver]
                    * NUM_ERROR_CORRECTION_BLOCKS[ErrorCorrectionLevels[ecl]][ver])

----------------------------------------------------------------------------
(* Specification of one call of getNumRawDataModules.                      *)

VersionMargin == 10

RawModulesInputs == (MIN_VERSION - VersionMargin)..(MAX_VERSION + VersionMargin)

InitRawModules ==
  /\ pc = "call"
  /\ args \in [op : {"getNumRawDataModules"}, ver : RawModulesInputs]
  /\ ret = Running
  /\ loc = NoLocals
  /\ blocks = <<>>
  /\ i = 0
  /\ k = 0
  /\ result = <<>>

CallGetNumRawDataModules ==
  /\ pc = "call"
  /\ args.op = "getNumRawDataModules"
  /\ ret' = getNumRawDataModules(args.ver)
  /\ pc' = "done"
  /\ UNCHANGED <<args, loc, blocks, i, k, result>>

NextRawModules == CallGetNumRawDataModules

SpecRawModules == InitRawModules /\ [][NextRawModules]_vars

----------------------------------------------------------------------------
(* addEccAndInterleave (lines 92-129).                                     *)

Min(a, b) == IF a < b THEN a ELSE b
Max(a, b) == IF a > b THEN a ELSE b

\* Array.prototype.slice(start, end): negative indices count from the end,
\* both are clamped to the array, an empty range gives the empty array.
Slice(arr, start, end) ==
  LET len == Len(arr)
      from == IF start < 0 THEN Max(len + start, 0) ELSE Min(start, len)
      to == IF end < 0 THEN Max(len + end, 0) ELSE Min(end, len)
  IN  SubSeq(arr, from + 1, to)

\* block[i] (0-based), undefined (-1 here) past the end of the block
At(block, n) == IF n < Len(block) THEN block[n + 1] ELSE -1

\* Line 122 without "|| j >= numShortBlocks": position padPos is skipped in
\* every block.
RECURSIVE InterleaveRowSkipAll(_, _, _, _, _, _)
InterleaveRowSkipAll(bs, n, padPos, numShort, lo, hi) ==
  IF lo > hi THEN <<>>
  ELSE IF lo = hi
    THEN IF n # padPos THEN <<At(bs[lo], n)>> ELSE <<>>
  ELSE LET mid == (lo + hi) \div 2
       IN  InterleaveRowSkipAll(bs, n, padPos, numShort, lo, mid)
             \o InterleaveRowSkipAll(bs, n, padPos, numShort, mid + 1, hi)

\* lines 120-124 for one i, over blocks[lo..hi] (1-based) in order
RECURSIVE InterleaveRow(_, _, _, _, _, _)
InterleaveRow(bs, n, padPos, numShort, lo, hi) ==
  IF lo > hi THEN <<>>
  ELSE IF lo = hi
    THEN IF n # padPos \/ lo - 1 >= numShort THEN <<At(bs[lo], n)>> ELSE <<>>
  ELSE LET mid == (lo + hi) \div 2
       IN  InterleaveRow(bs, n, padPos, numShort, lo, mid)
             \o InterleaveRow(bs, n, padPos, numShort, mid + 1, hi)

\* lines 119-125 for i in lo..hi (0-based) in order
RECURSIVE InterleaveRows(_, _, _, _, _)
InterleaveRows(bs, padPos, numShort, lo, hi) ==
  IF lo > hi THEN <<>>
  ELSE IF lo = hi THEN InterleaveRow(bs, lo, padPos, numShort, 1, Len(bs))
  ELSE LET mid == (lo + hi) \div 2
       IN  InterleaveRows(bs, padPos, numShort, lo, mid)
             \o InterleaveRows(bs, padPos, numShort, mid + 1, hi)

\* The interleaving loop with the skip of line 122 taken out: every byte of
\* every block is pushed.
InterleaveNoSkip(bs, padPos, numShort) ==
  InterleaveRows(bs, -1, numShort, 0, Len(bs[1]) - 1)

\* lines 118-125
Interleave(bs, padPos, numShort) ==
  InterleaveRows(bs, padPos, numShort, 0, Len(bs[1]) - 1)

\* lines 99-103 and 107, for a version that passed line 95
Parameters(ver, ecl) ==
  LET numBlocks == NUM_ERROR_CORRECTION_BLOCKS[ErrorCorrectionLevels[ecl]][ver]
      blockEccLen == ECC_CODEWORDS_PER_BLOCK[ErrorCorrectionLevels[ecl]][ver]
      rawCodewords == getNumRawDataModules(ver).val \div 8
  IN  [numBlocks |-> numBlocks,
       blockEccLen |-> blockEccLen,
       rawCodewords |-> rawCodewords,
       numShortBlocks |-> numBlocks - (rawCodewords % numBlocks),
       shortBlockLen |-> rawCodewords \div numBlocks,
       rsDiv |-> reedSolomonComputeDivisor(blockEccLen)]

\* the number of data bytes line 109 asks for, for block n (0-based)
BlockDataLen(p, n) ==
  p.shortBlockLen - p.blockEccLen + (IF n < p.numShortBlocks THEN 0 ELSE 1)

\* Line 109 with every block given the short length.
BlockDataAllShort(data, p, n, cursor) ==
  Slice(data, cursor, cursor + p.shortBlockLen - p.blockEccLen)

\* line 109
BlockData(data, p, n, cursor) ==
  Slice(data, cursor, cursor + BlockDataLen(p, n))

\* Lines 111-114 with the pad byte pushed onto every block.
BuildBlockPadAll(dat, p, n) ==
  (dat \o <<0>>) \o reedSolomonComputeRemainder(dat, p.rsDiv)

\* lines 111-114: the block pushed for the data slice dat of block n
BuildBlock(dat, p, n) ==
  LET ecc == reedSolomonComputeRemainder(dat, p.rsDiv)
      padded == IF n < p.numShortBlocks THEN dat \o <<0>> ELSE dat
  IN  padded \o ecc

\* Lines 93-107 without the length test of lines 95-96.
AddEccCheckNoLength ==
  /\ pc = "call"
  /\ args.op = "addEccAndInterleave"
  /\ LET n == getNumDataCodewords(args.ver, args.ecl)
     IN  IF n.kind = "throw"
           THEN /\ ret' = n
                /\ pc' = "done"
                /\ UNCHANGED loc
         ELSE LET p == Parameters(args.ver, args.ecl)
              IN  IF p.rsDiv.kind = "throw"
                    THEN /\ ret' = p.rsDiv
                         /\ pc' = "done"
                         /\ UNCHANGED loc
                    ELSE /\ loc' = [p EXCEPT !.rsDiv = p.rsDiv.val]
                         /\ pc' = "split"
                         /\ UNCHANGED ret
  /\ UNCHANGED <<args, blocks, i, k, result>>

\* lines 93-107: the argument check, then the parameter numbers and rsDiv
AddEccCheck ==
  /\ pc = "call"
  /\ args.op = "addEccAndInterleave"
  /\ LET n == getNumDataCodewords(args.ver, args.ecl)
     IN  IF n.kind = "throw"
           THEN /\ ret' = n
                /\ pc' = "done"
                /\ UNCHANGED loc
         ELSE IF Len(args.data) # n.val
           THEN /\ ret' = Throw("Invalid argument")
                /\ pc' = "done"
                /\ UNCHANGED loc
         ELSE LET p == Parameters(args.ver, args.ecl)
              IN  IF p.rsDiv.kind = "throw"
                    THEN /\ ret' = p.rsDiv
                         /\ pc' = "done"
                         /\ UNCHANGED loc
                    ELSE /\ loc' = [p EXCEPT !.rsDiv = p.rsDiv.val]
                         /\ pc' = "split"
                         /\ UNCHANGED ret
  /\ UNCHANGED <<args, blocks, i, k, result>>

\* lines 108-115: one pass of the block loop
AddEccSplitBlock ==
  /\ pc = "split"
  /\ i < loc.numBlocks
  /\ LET dat == BlockData(args.data, loc, i, k)
     IN  /\ k' = k + Len(dat)
         /\ blocks' = Append(blocks, BuildBlock(dat, loc, i))
  /\ i' = i + 1
  /\ UNCHANGED <<pc, args, ret, loc, result>>

\* lines 118-125, once the block loop has ended
AddEccInterleave ==
  /\ pc = "split"
  /\ i >= loc.numBlocks
  /\ IF blocks = <<>>
       THEN /\ ret' = Throw("TypeError")
            /\ pc' = "done"
            /\ UNCHANGED result
       ELSE /\ result' = Interleave(blocks, loc.shortBlockLen - loc.blockEccLen,
                                    loc.numShortBlocks)
            /\ pc' = "assert"
            /\ UNCHANGED ret
  /\ UNCHANGED <<args, loc, blocks, i, k>>

\* lines 126-128
AddEccReturn ==
  /\ pc = "assert"
  /\ ret' = IF Len(result) # loc.rawCodewords
              THEN Throw("Assertion error")
              ELSE Return(result)
  /\ pc' = "done"
  /\ UNCHANGED <<args, loc, blocks, i, k, result>>

----------------------------------------------------------------------------
(* Specification of one call of addEccAndInterleave: every version from    *)
(* one below to one above the valid range, every level, data of the        *)
(* expected length, of the lengths around it, and no data at all.          *)

LenSlack == 1

\* the data bytes of a call
DataBytes(len) == Array([j \in 1..len |-> (29 * j + 7) % 256])

VersionInputs == (MIN_VERSION - 1)..(MAX_VERSION + 1)

DataLengths(ver, ecl) ==
  LET n == getNumDataCodewords(ver, ecl)
  IN  IF n.kind = "throw" THEN 0..LenSlack
      ELSE {0} \cup {m \in (n.val - LenSlack)..(n.val + LenSlack) : m >= 0}

Init ==
  /\ pc = "call"
  /\ \E ver \in VersionInputs, ecl \in Levels :
       \E len \in DataLengths(ver, ecl) :
         args = [op |-> "addEccAndInterleave", ver |-> ver, ecl |-> ecl,
                 data |-> DataBytes(len)]
  /\ ret = Running
  /\ loc = NoLocals
  /\ blocks = <<>>
  /\ i = 0
  /\ k = 0
  /\ result = <<>>

Next ==
  \/ AddEccCheck
  \/ AddEccSplitBlock
  \/ AddEccInterleave
  \/ AddEccReturn

Spec == Init /\ [][Next]_vars

----------------------------------------------------------------------------
(* Properties.  What a call of addEccAndInterleave is expected to lay out, *)
(* from the tables and the version alone.                                  *)

ValidVersion == args.ver \in MIN_VERSION..MAX_VERSION

NumBlocksOf(ver, ecl) == NUM_ERROR_CORRECTION_BLOCKS[ErrorCorrectionLevels[ecl]][ver]
EccLenOf(ver, ecl) == ECC_CODEWORDS_PER_BLOCK[ErrorCorrectionLevels[ecl]][ver]
RawCodewordsOf(ver) == getNumRawDataModules(ver).val \div 8
NumShortOf(ver, ecl) == NumBlocksOf(ver, ecl) - (RawCodewordsOf(ver) % NumBlocksOf(ver, ecl))
ShortDataLenOf(ver, ecl) ==
  (RawCodewordsOf(ver) \div NumBlocksOf(ver, ecl)) - EccLenOf(ver, ecl)

\* the call's data has exactly numDataCodewords(version, level) bytes
RightLength ==
  /\ ValidVersion
  /\ Len(args.data) = getNumDataCodewords(args.ver, args.ecl).val

\* the call's data has another length
WrongLength ==
  /\ ValidVersion
  /\ Len(args.data) # getNumDataCodewords(args.ver, args.ecl).val

\* the layout mixes short and long blocks
MixedLayout ==
  /\ RightLength
  /\ 0 < NumShortOf(args.ver, args.ecl)
  /\ NumShortOf(args.ver, args.ecl) < NumBlocksOf(args.ver, args.ecl)

BlocksBuilt == pc \in {"assert", "done"}

\* C1: a call with a valid version and level and data of exactly
\* numDataCodewords(version, level) bytes never throws (the final length
\* assertion included), and what it returns has exactly
\* floor(numRawDataModules(version) / 8) bytes.
C1_CodewordCount ==
  RightLength =>
    /\ ret.kind # "throw"
    /\ pc = "assert" => Len(result) = RawCodewordsOf(args.ver)
    /\ pc = "done" =>
         /\ ret.kind = "return"
         /\ Len(ret.val) = RawCodewordsOf(args.ver)

C1_Witness ==
  /\ RightLength
  /\ pc = "done"
  /\ ret.kind = "return"
  /\ args.ver = 6
  /\ args.ecl = "H"
  /\ Len(ret.val) = 172

\* C2: a call with a valid version and level whose data has another length
\* than numDataCodewords(version, level) ends with "Invalid argument", and
\* ends there: no parameter is computed, no block is split, no byte is
\* interleaved, nothing is returned.
C2_InvalidArgument ==
  WrongLength =>
    /\ pc \in {"call", "done"}
    /\ loc = NoLocals
    /\ blocks = <<>>
    /\ i = 0
    /\ k = 0
    /\ result = <<>>
    /\ pc = "call" => ret.kind = "none"
    /\ pc = "done" => (ret.kind = "throw" /\ ret.val = "Invalid argument")

C2_Witness ==
  /\ WrongLength
  /\ pc = "done"
  /\ ret.kind = "throw"
  /\ ret.val = "Invalid argument"
  /\ args.ver = 5
  /\ args.ecl = "Q"
  /\ Len(args.data) = 63

\* the index (0-based) in the output of byte pos of block j (both 0-based)
\* under position-major interleaving with the pad bytes skipped: all blocks
\* for every earlier position, less the short blocks' pads at padPos, then
\* the earlier blocks at this position
RankOf(pos, j, numBlocks, numShort, padPos) ==
  pos * numBlocks + j - (IF pos >= padPos THEN numShort ELSE 0)

\* C3: for a layout that mixes short and long blocks, the output is the
\* position-major interleaving of the blocks with the zero pad byte at
\* position shortBlockLen - blockEccLen of every short block skipped: every
\* other byte of every block is at its rank in the output, and the output
\* has rawCodewords bytes, so none of them is a pad byte.
C3_InterleaveSkipsPad ==
  (MixedLayout /\ BlocksBuilt) =>
    LET numBlocks == NumBlocksOf(args.ver, args.ecl)
        numShort == NumShortOf(args.ver, args.ecl)
        padPos == ShortDataLenOf(args.ver, args.ecl)
        blockLen == padPos + 1 + EccLenOf(args.ver, args.ecl)
    IN  /\ Len(blocks) = numBlocks
        /\ Len(result) = RawCodewordsOf(args.ver)
        /\ Len(result) = numBlocks * blockLen - numShort
        /\ \A j \in 0..(numBlocks - 1) :
             /\ Len(blocks[j + 1]) = blockLen
             /\ \A pos \in 0..(blockLen - 1) :
                  IF pos = padPos /\ j < numShort
                    THEN blocks[j + 1][pos + 1] = 0
                    ELSE result[RankOf(pos, j, numBlocks, numShort, padPos) + 1]
                           = blocks[j + 1][pos + 1]
        /\ pc = "done" => (ret.kind = "return" /\ ret.val = result)

C3_Witness ==
  /\ MixedLayout
  /\ pc = "done"
  /\ ret.kind = "return"
  /\ args.ver = 5
  /\ args.ecl = "Q"
  /\ loc.numShortBlocks = 2
  /\ loc.numBlocks = 4
  /\ Len(blocks[1]) = 34
  /\ blocks[1][16] = 0
  /\ Len(ret.val) = 134

RECURSIVE SumOfLengths(_, _)
SumOfLengths(bs, n) == IF n = 0 THEN 0 ELSE SumOfLengths(bs, n - 1) + Len(bs[n])

\* C7 as stated: once all blocks are built, their lengths, each short
\* block's pad byte counted, add up to the raw codeword count.
C7_SumWithPads ==
  (RightLength /\ BlocksBuilt) =>
    SumOfLengths(blocks, Len(blocks)) = RawCodewordsOf(args.ver)

\* C7, amended: once all blocks are built, their lengths without the short
\* blocks' pad bytes (data + ECC) add up to the raw codeword count; with the
\* pad bytes they add up to the raw codeword count plus numShortBlocks, and
\* there is at least one short block.
C7_SumWithoutPads ==
  (RightLength /\ BlocksBuilt) =>
    /\ Len(blocks) = NumBlocksOf(args.ver, args.ecl)
    /\ NumShortOf(args.ver, args.ecl) >= 1
    /\ SumOfLengths(blocks, Len(blocks)) - NumShortOf(args.ver, args.ecl)
         = RawCodewordsOf(args.ver)

C7_Witness ==
  /\ RightLength
  /\ pc = "assert"
  /\ args.ver = 5
  /\ args.ecl = "Q"
  /\ Len(blocks) = 4
  /\ SumOfLengths(blocks, 4) = 136

\* the data bytes of block n (0-based) and where they start in data
DataLenOf(n, ver, ecl) ==
  ShortDataLenOf(ver, ecl) + (IF n < NumShortOf(ver, ecl) THEN 0 ELSE 1)

OffsetOf(n, ver, ecl) ==
  n * ShortDataLenOf(ver, ecl) + Max(0, n - NumShortOf(ver, ecl))

RECURSIVE DataPortions(_, _, _, _)
DataPortions(bs, n, ver, ecl) ==
  IF n = 0 THEN <<>>
  ELSE DataPortions(bs, n - 1, ver, ecl)
         \o SubSeq(bs[n], 1, DataLenOf(n - 1, ver, ecl))

\* C10: the slices partition data: block n starts with the
\* shortBlockLen - blockEccLen bytes (one more from block numShortBlocks
\* on) that follow the bytes of the blocks before it, no slice is cut short
\* by the end of data, the cursor is at the end of the last slice, and when
\* all blocks are built the cursor is data.length and the data portions in
\* block order make up data.
C10_SlicesPartitionData ==
  (RightLength /\ pc # "call") =>
    /\ Len(blocks) = i
    /\ k = OffsetOf(i, args.ver, args.ecl)
    /\ \A n \in 0..(Len(blocks) - 1) :
         LET len == DataLenOf(n, args.ver, args.ecl)
             off == OffsetOf(n, args.ver, args.ecl)
         IN  /\ off + len <= Len(args.data)
             /\ Len(blocks[n + 1]) >= len
             /\ SubSeq(blocks[n + 1], 1, len) = SubSeq(args.data, off + 1, off + len)
    /\ BlocksBuilt =>
         /\ i = NumBlocksOf(args.ver, args.ecl)
         /\ k = Len(args.data)
         /\ DataPortions(blocks, Len(blocks), args.ver, args.ecl) = args.data

C10_Witness ==
  /\ MixedLayout
  /\ pc = "assert"
  /\ args.ver = 5
  /\ args.ecl = "Q"
  /\ i = 4
  /\ k = 62
  /\ SubSeq(blocks[4], 1, 16) = SubSeq(args.data, 47, 62)

\* C4: for bytes x and y the product is a byte (neither error is thrown),
\* x times 1 is x, x times 0 is 0, and the product of x and y is the
\* product of y and x.
C4_FieldClosure ==
  (pc = "done" /\ args.x \in Byte /\ args.y \in Byte) =>
    /\ ret.kind = "return"
    /\ ret.val \in Byte
    /\ args.y = 1 => ret.val = args.x
    /\ args.y = 0 => ret.val = 0
    /\ ret.val = reedSolomonMultiply(args.y, args.x).val

C4_Witness ==
  /\ pc = "done"
  /\ args.x = 3
  /\ args.y = 7
  /\ ret.kind = "return"
  /\ ret.val = 9

\* C5 as stated: the remainder has as many bytes as the divisor, for every
\* data and every divisor, the empty ones included.
C5_RemainderLength ==
  pc = "done" => Len(ret.val) = Len(args.divisor)

\* C5, amended: the remainder has as many bytes as the divisor whenever the
\* divisor has at least one coefficient or data is empty; for the empty
\* divisor and non-empty data it is the one byte 0.
C5_RemainderLengthNonEmpty ==
  pc = "done" =>
    IF args.divisor = <<>> /\ args.data # <<>>
      THEN ret.val = <<0>>
      ELSE Len(ret.val) = Len(args.divisor)

C5_Witness ==
  /\ pc = "done"
  /\ Len(args.divisor) = 2
  /\ Len(args.data) = 3
  /\ Len(ret.val) = 2

\* C6: for a degree in 1..255 the divisor has exactly degree coefficients,
\* each a byte; for any other degree the call throws "Degree out of range".
C6_DivisorDegree ==
  pc = "done" =>
    IF args.degree \in 1..255
      THEN /\ ret.kind = "return"
           /\ Len(ret.val) = args.degree
           /\ \A j \in 1..Len(ret.val) : ret.val[j] \in Byte
      ELSE /\ ret.kind = "throw"
           /\ ret.val = "Degree out of range"

C6_Witness ==
  /\ pc = "done"
  /\ args.degree = 255
  /\ ret.kind = "return"
  /\ Len(ret.val) = 255

\* the value the formula of the capacity resolver gives for a version
ClaimedRawModules(v) ==
  (16 * v + 128) * v + 64
    - (IF v >= 2 THEN (25 * ((v \div 7) + 2) - 10) * ((v \div 7) + 2) - 55 ELSE 0)
    - (IF v >= 7 THEN 36 ELSE 0)

\* C8: for a version in 1..40 the call returns the formula's value, which
\* lies in 208..29648 (208 for version 1, 29648 for version 40), so the
\* assertion does not fire; for any other version it throws "Version number
\* out of range".
C8_RawDataModules ==
  pc = "done" =>
    IF args.ver \in 1..40
      THEN /\ ret.kind = "return"
           /\ ret.val = ClaimedRawModules(args.ver)
           /\ 208 <= ret.val /\ ret.val <= 29648
           /\ args.ver = 1 => ret.val = 208
           /\ args.ver = 40 => ret.val = 29648
      ELSE /\ ret.kind = "throw"
           /\ ret.val = "Version number out of range"

C8_Witness ==
  /\ pc = "done"
  /\ args.ver = 40
  /\ ret.kind = "return"
  /\ ret.val = 29648

\* Multiplication in GF(2^8) modulo x^8 + x^4 + x^3 + x^2 + 1, the school
\* way: the carry-less product of the two bytes, then the reduction of its
\* bits 14 down to 8.
RECURSIVE CarrylessProduct(_, _, _)
CarrylessProduct(a, b, bit) ==
  IF bit > 7 THEN 0
  ELSE XOR(IF (b \div (2 ^ bit)) % 2 = 1 THEN a * (2 ^ bit) ELSE 0,
           CarrylessProduct(a, b, bit + 1))

RECURSIVE ReduceModulo(_, _)
ReduceModulo(p, bit) ==
  IF bit < 8 THEN p
  ELSE ReduceModulo(IF (p \div (2 ^ bit)) % 2 = 1
                      THEN XOR(p, 285 * (2 ^ (bit - 8)))
                      ELSE p,
                    bit - 1)

FieldProduct(a, b) == ReduceModulo(CarrylessProduct(a, b, 0), 14)

RECURSIVE FieldPower(_, _)
FieldPower(a, n) ==
  IF n = 0 THEN 1
  ELSE LET prev == FieldPower(a, n - 1)
       IN  CASE prev \in Byte -> FieldProduct(a, prev)

\* the polynomial with coefficients coef, highest power first, at point x
RECURSIVE Evaluate(_, _, _)
Evaluate(coef, n, x) ==
  IF n = 0 THEN 0
  ELSE LET prev == Evaluate(coef, n - 1, x)
       IN  CASE prev \in Byte -> XOR(FieldProduct(prev, x), coef[n])

\* the divisor is the generator polynomial of its degree
IsGenerator(divisor) ==
  /\ Len(divisor) \in MIN_DEGREE..MAX_DEGREE
  /\ divisor = reedSolomonComputeDivisor(Len(divisor)).val

\* C9: with the generator polynomial of degree d as divisor, data followed
\* by the remainder is a Reed-Solomon codeword: read as a polynomial over
\* GF(2^8)/0x11D, highest power first, it is 0 at each of 2^0 .. 2^(d-1).
C9_ValidCodeword ==
  (pc = "done" /\ IsGenerator(args.divisor)) =>
    LET codeword == args.data \o ret.val
    IN  /\ Len(ret.val) = Len(args.divisor)
        /\ \A r \in 0..(Len(args.divisor) - 1) :
             Evaluate(codeword, Len(codeword), FieldPower(2, r)) = 0

C9_Witness ==
  /\ pc = "done"
  /\ IsGenerator(args.divisor)
  /\ Len(args.divisor) = 4
  /\ args.data = <<29, 255, 2>>
  /\ ret.val # <<0, 0, 0, 0>>

====
